---- MODULE Spec2Model ----
(***************************************************************************)
(* Wind-turbine proximity notebook (Python/wind-turbine-proximity/         *)
(* windfarm.ipynb): the pipeline cell, the histogram cell and the summary  *)
(* cell, one action per statement.                                         *)
(*                                                                         *)
(* Numbers.  A float is a numpy float64, carried bit for bit: sums,        *)
(* differences, products, quotients, square roots and comparisons round    *)
(* as IEEE 754 does.                                                       *)
(*                                                                         *)
(* Geometry.  A turbine feature is a Point or a MultiPoint; a district     *)
(* feature is a Polygon or a MultiPolygon whose parts are rectangles.      *)
(* All coordinates are floats: degrees in EPSG:4326, metres in EPSG:3857,  *)
(* the spherical Mercator projection between the two.  Of the projection   *)
(* the products and quotients are worked out; asinh(tan(lat)) and its      *)
(* inverse are libm's values at the coordinates of the input files.        *)
(***************************************************************************)
EXTENDS Integers, Sequences, FiniteSets, TLC

\* ------------------------------------------------------------ bounds
MaxTurbines == 2
MaxCities == 2
\* the largest threshold, in km, that the threshold comparisons range over
MaxThresholdKm == 8

\* ------------------------------------------------- program constants
ThresholdKm == 5
NearBandKm == 2
MetresPerKm == 1000
HistBins == 10

\* ------------------------------------------------------------ floats
\* A float is a numpy float64 (a Python float), carried bit for bit: NaN, or
\* the finite value (-1)^neg * int(bits) * 2^exp, bits a sequence of 0 and 1,
\* most significant first; a value other than 0.0 has MantissaBits bits, the
\* first of them 1, and 0.0 has none.

\* the bits of a float64 significand
MantissaBits == 53
\* the bytes after the binary point worked out for a literal before
\* rounding: past the significand for any literal of 2^-17 or more
QuotientBytes == 9
\* quotients and square roots are worked out in limbs of LimbBits bits,
\* Limbs of them
LimbBits == 15
Limbs == 4
\* the bits after the binary point of a quotient of two significands, and
\* the bits of the root of a significand, worked out before rounding: the
\* significand, a guard bit and more
QuotientBits == 56
RootBits == 56

NaN == [nan |-> TRUE, neg |-> FALSE, bits |-> <<>>, exp |-> 0]

Zero == [nan |-> FALSE, neg |-> FALSE, bits |-> <<>>, exp |-> 0]

Abs(n) == IF n < 0 THEN -n ELSE n

Zeros(n) == [k \in 1..n |-> 0] \o <<>>

Reverse(s) == [k \in 1..Len(s) |-> s[Len(s) + 1 - k]] \o <<>>

StripZeros(b) ==
    IF \A k \in 1..Len(b) : b[k] = 0 THEN <<>>
    ELSE SubSeq(b, CHOOSE k \in 1..Len(b) : b[k] = 1 /\ \A j \in 1..(k - 1) : b[j] = 0,
                Len(b))

\* bit sequences are worked on a byte at a time: the bytes of a bit
\* sequence, zeros put in front to fill the first byte, and back
PadFront(b) == Zeros((8 - (Len(b) % 8)) % 8) \o b

Byte(b, k) ==
    b[k] * 128 + b[k + 1] * 64 + b[k + 2] * 32 + b[k + 3] * 16
    + b[k + 4] * 8 + b[k + 5] * 4 + b[k + 6] * 2 + b[k + 7]

ToBytes(b) == [j \in 1..(Len(PadFront(b)) \div 8) |-> Byte(PadFront(b), 8 * j - 7)] \o <<>>

FromBytes(B) ==
    [k \in 1..(8 * Len(B)) |-> (B[((k - 1) \div 8) + 1] \div (2 ^ (7 - ((k - 1) % 8)))) % 2]
        \o <<>>

\* addition, least significant byte first
RECURSIVE AddLsb(_, _, _)
AddLsb(A, B, carry) ==
    IF A = <<>> /\ B = <<>> THEN <<carry>>
    ELSE IF A = <<>> THEN <<(B[1] + carry) % 256>>
                          \o AddLsb(A, Tail(B), (B[1] + carry) \div 256)
    ELSE IF B = <<>> THEN <<(A[1] + carry) % 256>>
                          \o AddLsb(Tail(A), B, (A[1] + carry) \div 256)
    ELSE <<(A[1] + B[1] + carry) % 256>>
         \o AddLsb(Tail(A), Tail(B), (A[1] + B[1] + carry) \div 256)

AddBits(a, b) ==
    StripZeros(FromBytes(Reverse(AddLsb(Reverse(ToBytes(a)), Reverse(ToBytes(b)), 0))))

\* subtraction A - B for A >= B, least significant byte first
RECURSIVE SubLsb(_, _, _)
SubLsb(A, B, borrow) ==
    IF A = <<>> THEN <<>>
    ELSE IF B = <<>> THEN <<(A[1] - borrow) % 256>>
                          \o SubLsb(Tail(A), B, IF A[1] - borrow < 0 THEN 1 ELSE 0)
    ELSE <<(A[1] - B[1] - borrow) % 256>>
         \o SubLsb(Tail(A), Tail(B), IF A[1] - B[1] - borrow < 0 THEN 1 ELSE 0)

SubBits(a, b) ==
    StripZeros(FromBytes(Reverse(SubLsb(Reverse(ToBytes(a)), Reverse(ToBytes(b)), 0))))

\* multiplication by k <= 256, least significant byte first
RECURSIVE MulLsb(_, _, _)
MulLsb(A, k, carry) ==
    IF A = <<>> THEN <<carry>>
    ELSE <<(A[1] * k + carry) % 256>> \o MulLsb(Tail(A), k, (A[1] * k + carry) \div 256)

MulBits(a, k) == StripZeros(FromBytes(Reverse(MulLsb(Reverse(ToBytes(a)), k, 0))))

\* (a sequence written [k \in 1..n |-> e] is followed by \o <<>>, which
\* leaves it as it is)

\* the first place where two bit sequences of one length differ, 0 if none
FirstDiff(a, b) ==
    IF a = b THEN 0
    ELSE CHOOSE k \in 1..Len(a) : a[k] # b[k] /\ \A j \in 1..(k - 1) : a[j] = b[j]

\* int(a) < int(b) for bit sequences without leading zeros
BitsLt(a, b) ==
    IF Len(a) # Len(b) THEN Len(a) < Len(b)
    ELSE FirstDiff(a, b) # 0 /\ a[FirstDiff(a, b)] = 0

\* bits b, not all of them 1, and one more: p is the place of the last 0
SuccBitsAt(b, p) == [k \in 1..Len(b) |-> IF k < p THEN b[k] ELSE IF k = p THEN 1 ELSE 0] \o <<>>

\* bits b and one more
SuccBits(b) ==
    IF \A k \in 1..Len(b) : b[k] = 1 THEN <<1>> \o Zeros(Len(b))
    ELSE SuccBitsAt(b, CHOOSE p \in 1..Len(b) :
                           b[p] = 0 /\ \A k \in (p + 1)..Len(b) : b[k] = 1)

\* the MantissaBits leading bits of b, which has more and starts with a 1,
\* to nearest: one more if the bit after them is 1 and either a later bit is
\* 1 or the last of them is (ties to even)
NearestEven(b) ==
    IF /\ b[MantissaBits + 1] = 1
       /\ \/ \E k \in (MantissaBits + 2)..Len(b) : b[k] = 1
          \/ b[MantissaBits] = 1
    THEN SuccBits(SubSeq(b, 1, MantissaBits))
    ELSE SubSeq(b, 1, MantissaBits)

\* the float of the rounded leading bits r of n bits at the exponent exp; r
\* has one bit more than MantissaBits if the rounding carried
Rounded(neg, r, n, exp) ==
    [nan |-> FALSE, neg |-> neg, bits |-> SubSeq(r, 1, MantissaBits),
     exp |-> exp + (n - MantissaBits) + (Len(r) - MantissaBits)]

\* (-1)^neg * int(b) * 2^exp as a float64, b without leading zeros
Normalised(neg, b, exp) ==
    IF b = <<>> THEN Zero
    ELSE IF Len(b) <= MantissaBits
    THEN [nan |-> FALSE, neg |-> neg,
          bits |-> b \o Zeros(MantissaBits - Len(b)),
          exp |-> exp - (MantissaBits - Len(b))]
    ELSE Rounded(neg, NearestEven(b), Len(b), exp)

\* IEEE 754 round-to-nearest, ties to even: (-1)^neg * int(bits) * 2^exp as
\* a float64
RoundToEven(neg, bits, exp) == Normalised(neg, StripZeros(bits), exp)

\* the bits of a natural number below 2^31
NatBits(n) == StripZeros([k \in 1..31 |-> (n \div (2 ^ (31 - k))) % 2])

\* the natural number, below 2^31, of a bit sequence
RECURSIVE BytesNat(_)
BytesNat(B) ==
    IF B = <<>> THEN 0 ELSE 256 * BytesNat(SubSeq(B, 1, Len(B) - 1)) + B[Len(B)]

BitsNat(b) == BytesNat(ToBytes(b))

\* long division: k more quotient bytes of r / den (r < den < 2^23), then
\* one byte that is not 0 if a rest is left
RECURSIVE FracBytes(_, _, _)
FracBytes(r, den, k) ==
    IF k = 0 THEN <<IF r # 0 THEN 1 ELSE 0>>
    ELSE <<(256 * r) \div den>> \o FracBytes((256 * r) % den, den, k - 1)

\* the float64 nearest to num / den (den > 0): the float of a literal
Float64(num, den) ==
    RoundToEven(num < 0,
                NatBits(Abs(num) \div den)
                    \o FromBytes(FracBytes(Abs(num) % den, den, QuotientBytes)),
                -(8 * (QuotientBytes + 1)))

\* |x| < |y| for finite floats
MagLt(x, y) ==
    IF y.bits = <<>> THEN FALSE
    ELSE IF x.bits = <<>> THEN TRUE
    ELSE IF x.exp # y.exp THEN x.exp < y.exp
    ELSE BitsLt(x.bits, y.bits)

\* float < float and float <= float; a comparison with NaN is False
Lt(x, y) ==
    /\ ~x.nan
    /\ ~y.nan
    /\ IF x.neg # y.neg THEN x.neg
       ELSE IF x.neg THEN MagLt(y, x)
       ELSE MagLt(x, y)

Le(x, y) == ~x.nan /\ ~y.nan /\ (x = y \/ Lt(x, y))

\* the sum of two finite floats other than 0.0 with the signs xneg and yneg
\* and the significands a and b at the one exponent e
AlignedSum(xneg, a, yneg, b, e) ==
    RoundToEven(IF xneg = yneg \/ ~BitsLt(a, b) THEN xneg ELSE yneg,
                IF xneg = yneg THEN AddBits(a, b)
                ELSE SubBits(IF BitsLt(a, b) THEN b ELSE a, IF BitsLt(a, b) THEN a ELSE b),
                e)

\* two floats with x.bits and y.bits at the exponent e, the lesser of theirs
Aligned(x, y, e) ==
    AlignedSum(x.neg, x.bits \o Zeros(x.exp - e), y.neg, y.bits \o Zeros(y.exp - e), e)

\* float + float
Float64Add(x, y) ==
    IF x.nan \/ y.nan THEN NaN
    ELSE IF x.bits = <<>> THEN y
    ELSE IF y.bits = <<>> THEN x
    ELSE Aligned(x, y, IF x.exp <= y.exp THEN x.exp ELSE y.exp)

\* -x
Float64Neg(x) == IF x.nan \/ x.bits = <<>> THEN x ELSE [x EXCEPT !.neg = ~@]

\* float - float
Float64Sub(x, y) == Float64Add(x, Float64Neg(y))

\* a natural number in Limbs limbs of LimbBits bits, most significant first
Limb == 2 ^ LimbBits

\* 2 * a and 4 * a
Twice(a) ==
    <<(2 * a[1] + (a[2] \div (Limb \div 2))) % Limb,
      (2 * a[2] + (a[3] \div (Limb \div 2))) % Limb,
      (2 * a[3] + (a[4] \div (Limb \div 2))) % Limb,
      (2 * a[4]) % Limb>>

Fourfold(a) ==
    <<(4 * a[1] + (a[2] \div (Limb \div 4))) % Limb,
      (4 * a[2] + (a[3] \div (Limb \div 4))) % Limb,
      (4 * a[3] + (a[4] \div (Limb \div 4))) % Limb,
      (4 * a[4]) % Limb>>

\* a + 1 for an even a
Succ(a) == [a EXCEPT ![Limbs] = @ + 1]

LimbsLt(a, b) ==
    \E k \in 1..Limbs : a[k] < b[k] /\ \A j \in 1..(k - 1) : a[j] = b[j]

\* a - b for a >= b
LimbsSub(a, b) ==
    LET d4 == a[4] - b[4]
        d3 == a[3] - b[3] - (IF d4 < 0 THEN 1 ELSE 0)
        d2 == a[2] - b[2] - (IF d3 < 0 THEN 1 ELSE 0)
        d1 == a[1] - b[1] - (IF d2 < 0 THEN 1 ELSE 0)
    IN  <<d1 % Limb, d2 % Limb, d3 % Limb, d4 % Limb>>

LimbsBits(a) ==
    [k \in 1..(Limbs * LimbBits) |->
        (a[((k - 1) \div LimbBits) + 1] \div (2 ^ (LimbBits - 1 - ((k - 1) % LimbBits)))) % 2]
        \o <<>>

\* the limbs of a bit sequence of Limbs * LimbBits bits or fewer, and back
LimbOf(p, j) == BitsNat(SubSeq(p, LimbBits * (j - 1) + 1, LimbBits * j))

PadLimbs(b) == Zeros(Limbs * LimbBits - Len(b)) \o b

\* the limbs of bits p, Limbs * LimbBits of them
LimbsOf(p) == [j \in 1..Limbs |-> LimbOf(p, j)] \o <<>>

BitsLimbs(b) == LimbsOf(PadLimbs(b))

\* float * float: the significands multiplied a byte of y at a time, least
\* significant byte first
RECURSIVE MulBytesLsb(_, _)
MulBytesLsb(A, B) ==
    IF B = <<>> THEN <<>>
    ELSE AddLsb(MulLsb(A, B[1], 0), <<0>> \o MulBytesLsb(A, Tail(B)), 0)

Float64Mul(x, y) ==
    IF x.nan \/ y.nan THEN NaN
    ELSE IF x.bits = <<>> \/ y.bits = <<>> THEN Zero
    ELSE RoundToEven(x.neg # y.neg,
                     FromBytes(Reverse(MulBytesLsb(Reverse(ToBytes(x.bits)),
                                                   Reverse(ToBytes(y.bits))))),
                     x.exp + y.exp)

\* one more bit of a quotient, rem being twice what was left and quo twice
\* the quotient so far
QuoStep(s, rem, quo) ==
    IF LimbsLt(rem, s.d)
    THEN [rem |-> rem, quo |-> quo, d |-> s.d, k |-> s.k - 1]
    ELSE [rem |-> LimbsSub(rem, s.d), quo |-> Succ(quo), d |-> s.d, k |-> s.k - 1]

\* one more bit of a quotient: s.quo is the quotient so far and s.rem what is
\* left of the dividend, below the divisor s.d
QuoBit(s) == QuoStep(s, Twice(s.rem), Twice(s.quo))

\* n more bits
RECURSIVE QuoMore(_, _)
QuoMore(s, n) == IF n = 0 THEN s ELSE QuoMore(QuoBit(s), n - 1)

\* s.k more bits, a multiple of four, four at a time
RECURSIVE QuoBits4(_)
QuoBits4(s) == IF s.k = 0 THEN s ELSE QuoBits4(QuoMore(s, 4))

\* the quotient n / d of two significands in limbs: its whole part (0 or 1)
\* and QuotientBits bits after it, with what is left of n
QuoLimbs(n, d) ==
    QuoBits4([rem |-> IF LimbsLt(n, d) THEN n ELSE LimbsSub(n, d),
              quo |-> IF LimbsLt(n, d) THEN <<0, 0, 0, 0>> ELSE <<0, 0, 0, 1>>,
              d |-> d,
              k |-> QuotientBits])

\* the bits of a quotient, then one bit that is 1 if anything is left
QuoRest(s) == LimbsBits(s.quo) \o <<IF s.rem = <<0, 0, 0, 0>> THEN 0 ELSE 1>>

\* float / float, the divisor not 0.0
Float64Div(x, y) ==
    IF x.nan \/ y.nan THEN NaN
    ELSE IF x.bits = <<>> THEN Zero
    ELSE RoundToEven(x.neg # y.neg,
                     QuoRest(QuoLimbs(BitsLimbs(x.bits), BitsLimbs(y.bits))),
                     x.exp - y.exp - (QuotientBits + 1))

\* the next two bits of the radicand s.rad, its bits 2 * s.j - 1 and 2 * s.j
\* (zeros past its end)
NextPair(s) == IF 2 * s.j <= Len(s.rad) THEN 2 * s.rad[2 * s.j - 1] + s.rad[2 * s.j] ELSE 0

\* one more bit of a square root, rem being what was left with the next two
\* bits of the radicand after it, root twice the root so far and trial what
\* the next bit takes from rem if it is 1
RootStep(s, rem, root, trial) ==
    IF LimbsLt(rem, trial)
    THEN [rem |-> rem, root |-> root, rad |-> s.rad, j |-> s.j + 1, k |-> s.k - 1]
    ELSE [rem |-> LimbsSub(rem, trial), root |-> Succ(root), rad |-> s.rad,
          j |-> s.j + 1, k |-> s.k - 1]

\* one more bit of a square root: s.root is the root so far and s.rem what
\* is left of the radicand under it
RootBit(s) ==
    RootStep(s, [Fourfold(s.rem) EXCEPT ![Limbs] = @ + NextPair(s)], Twice(s.root),
             Succ(Fourfold(s.root)))

\* n more bits
RECURSIVE RootMore(_, _)
RootMore(s, n) == IF n = 0 THEN s ELSE RootMore(RootBit(s), n - 1)

\* s.k more bits, a multiple of four, four at a time
RECURSIVE RootBits4(_)
RootBits4(s) == IF s.k = 0 THEN s ELSE RootBits4(RootMore(s, 4))

\* the bits of a root, then one bit that is 1 if anything is left
RootRest(s) == LimbsBits(s.root) \o <<IF s.rem = <<0, 0, 0, 0>> THEN 0 ELSE 1>>

\* sqrt(x) for a float x >= 0: the significand with an even exponent, the
\* RootBits bits of its root two bits of radicand at a time, then rounded
Float64Sqrt(x) ==
    IF x.nan THEN NaN
    ELSE IF x.bits = <<>> THEN Zero
    ELSE IF x.neg THEN NaN
    ELSE RoundToEven(FALSE,
                     RootRest(RootBits4([rem |-> <<0, 0, 0, 0>>,
                                         root |-> <<0, 0, 0, 0>>,
                                         rad |-> IF x.exp % 2 = 0 THEN <<0>> \o x.bits
                                                 ELSE x.bits \o <<0>>,
                                         j |-> 1,
                                         k |-> RootBits])),
                     ((x.exp - (x.exp % 2)) \div 2)
                         - (RootBits - (MantissaBits + 1) \div 2) - 1)

Digit(d) == <<"0", "1", "2", "3", "4", "5", "6", "7", "8", "9">>[d + 1]

\* str(n) for a natural number n, a character at a time
RECURSIVE Digits(_)
Digits(n) == IF n < 10 THEN <<Digit(n)>> ELSE Digits(n \div 10) \o <<Digit(n % 10)>>

\* bits b to the nearest whole number, ties to even, the last f of them
\* after the binary point and at least one before it
NearestWhole(b, f) ==
    BitsNat(IF f <= 0 THEN b ELSE SubSeq(b, 1, Len(b) - f))
    + (IF /\ f > 0
          /\ b[Len(b) - f + 1] = 1
          /\ \/ \E j \in (Len(b) - f + 2)..Len(b) : b[j] = 1
             \/ b[Len(b) - f] = 1
       THEN 1 ELSE 0)

\* bits p at the exponent -f as bits with the last f after the binary point
FixedPoint(p, f) == IF f <= 0 THEN p \o Zeros(-f) ELSE Zeros(f + 1 - Len(p)) \o p

\* round(|x| * 100), ties to even, for a finite float below 2^24
Hundredths(x) == NearestWhole(FixedPoint(MulBits(x.bits, 100), -x.exp), -x.exp)

\* h hundredths with two decimals, a character at a time
TwoDecimals(h) == Digits(h \div 100) \o <<".", Digit((h % 100) \div 10), Digit(h % 10)>>

\* f"{x:.2f}", a character at a time
Format2f(x) ==
    IF x.nan THEN <<"n", "a", "n">>
    ELSE (IF x.neg THEN <<"-">> ELSE <<>>) \o TwoDecimals(Hundredths(x))

\* the float 0x1.hhhhhhhhhhhhhp+e of float.hex(), h its thirteen hexadecimal
\* digits, negated if neg
Hex64(neg, h, e) ==
    [nan |-> FALSE, neg |-> neg,
     bits |-> <<1>> \o [k \in 1..(MantissaBits - 1) |->
                          (h[((k - 1) \div 4) + 1] \div (2 ^ (3 - ((k - 1) % 4)))) % 2],
     exp |-> e - (MantissaBits - 1)]

\* ---------------------------------------------------- pandas Series
DropNa(s) == SelectSeq(s, LAMBDA v : ~v.nan)

\* (mutant: the first value instead of the least)
FoldMinFirst(s) == s[1]

RECURSIVE FoldMin(_)
FoldMin(s) ==
    IF Len(s) = 1 THEN s[1]
    ELSE LET r == FoldMin(Tail(s)) IN IF Le(s[1], r) THEN s[1] ELSE r

RECURSIVE FoldMax(_)
FoldMax(s) ==
    IF Len(s) = 1 THEN s[1]
    ELSE LET r == FoldMax(Tail(s)) IN IF Le(r, s[1]) THEN s[1] ELSE r

\* Series.min(): NaN skipped, NaN for an empty Series
SeriesMin(s) == IF DropNa(s) = <<>> THEN NaN ELSE FoldMin(DropNa(s))

\* (mutant: the first value instead of the greatest)
SeriesMaxFirst(s) == IF DropNa(s) = <<>> THEN NaN ELSE DropNa(s)[1]

\* Series.max()
SeriesMax(s) == IF DropNa(s) = <<>> THEN NaN ELSE FoldMax(DropNa(s))

\* acc + s[1] + s[2] + ..., each sum rounded
RECURSIVE SumFrom(_, _)
SumFrom(acc, s) ==
    IF s = <<>> THEN acc
    ELSE Float64Add(SumFrom(acc, SubSeq(s, 1, Len(s) - 1)), s[Len(s)])

\* numpy adds up a block of PairwiseUnroll values or more in that many
\* partial sums, a value in every PairwiseUnroll-th place to each
PairwiseUnroll == 8

\* the j-th partial sum of s, over the places j, j + 8, ... of its whole
\* runs of eight
Lane(s, j) ==
    SumFrom(s[j], [t \in 1..((Len(s) \div PairwiseUnroll) - 1) |-> s[j + PairwiseUnroll * t]])

\* the partial sums of s, PairwiseUnroll of them
Lanes(s) == [j \in 1..PairwiseUnroll |-> Lane(s, j)] \o <<>>

\* the sums of the neighbours in a sequence of even length
PairSums(r) == [k \in 1..(Len(r) \div 2) |-> Float64Add(r[2 * k - 1], r[2 * k])] \o <<>>

\* the partial sums added in pairs, the pairs in pairs, down to one:
\* ((r0 + r1) + (r2 + r3)) + ((r4 + r5) + (r6 + r7))
RECURSIVE InPairs(_)
InPairs(r) == IF Len(r) = 1 THEN r[1] ELSE InPairs(PairSums(r))

\* numpy.add.reduce over float64 (pairwise_sum, for up to 128 values): fewer
\* than eight values are added up from the first on; eight or more go to
\* the eight partial sums, which are added in pairs, and the values past
\* the last whole run of eight are added to that
Float64Sum(s) ==
    IF Len(s) < PairwiseUnroll THEN SumFrom(Zero, s)
    ELSE SumFrom(InPairs(Lanes(s)),
                 SubSeq(s, Len(s) - (Len(s) % PairwiseUnroll) + 1, Len(s)))

\* the values of a Series with 0.0 in the place of each NaN
FillNa(s) == [k \in 1..Len(s) |-> IF s[k].nan THEN Zero ELSE s[k]]

\* (mutant: 0 for an empty Series)
SeriesMeanZero(s) ==
    IF DropNa(s) = <<>> THEN Zero
    ELSE Float64Div(Float64Sum(FillNa(s)), Float64(Len(DropNa(s)), 1))

\* Series.mean() (pandas nanmean): the sum of the values, 0.0 for a NaN,
\* divided by the number of values that are not NaN; NaN when there are none
SeriesMean(s) ==
    IF DropNa(s) = <<>> THEN NaN
    ELSE Float64Div(Float64Sum(FillNa(s)), Float64(Len(DropNa(s)), 1))

\* ---------------------------------------------------------- geometry
\* a Point is [type, x, y], its coordinates floats; a Polygon is
\* [type, ring], the ring its exterior: a sequence of Points that ends where
\* it starts
Pt(x, y) == [type |-> "Point", x |-> x, y |-> y]

\* the rectangle with the corners (x0, y0) and (x1, y1), its ring
\* counterclockwise from (x0, y0)
Rect(x0, y0, x1, y1) ==
    [type |-> "Polygon",
     ring |-> <<Pt(x0, y0), Pt(x1, y0), Pt(x1, y1), Pt(x0, y1), Pt(x0, y0)>>]

\* GEOS Centroid::area2: twice the signed area of a triangle
Area2(p1, p2, p3) ==
    Float64Sub(Float64Mul(Float64Sub(p2.x, p1.x), Float64Sub(p3.y, p1.y)),
               Float64Mul(Float64Sub(p3.x, p1.x), Float64Sub(p2.y, p1.y)))

\* GEOS Centroid::centroid3: three times the centroid of a triangle
Centroid3(p1, p2, p3) ==
    [x |-> Float64Add(Float64Add(p1.x, p2.x), p3.x),
     y |-> Float64Add(Float64Add(p1.y, p2.y), p3.y)]

\* GEOS Centroid::addTriangle: a triangle of twice the area a2 and three
\* times the centroid c3 added to the sums
AddTriangle(sum, a2, c3) ==
    [cg3 |-> [x |-> Float64Add(sum.cg3.x, Float64Mul(a2, c3.x)),
              y |-> Float64Add(sum.cg3.y, Float64Mul(a2, c3.y))],
     areasum2 |-> Float64Add(sum.areasum2, a2)]

\* GEOS Centroid::addShell: the sums over the first n triangles
\* (ring[1], ring[k], ring[k + 1]).  GEOS gives every triangle the sign of
\* the ring's orientation, which changes the sign of all three sums and
\* leaves their quotients as they are
RECURSIVE AddShell(_, _)
AddShell(ring, n) ==
    IF n = 0 THEN [cg3 |-> [x |-> Zero, y |-> Zero], areasum2 |-> Zero]
    ELSE AddTriangle(AddShell(ring, n - 1),
                     Area2(ring[1], ring[n], ring[n + 1]),
                     Centroid3(ring[1], ring[n], ring[n + 1]))

\* GEOS Centroid::getCentroid for sums with an area other than 0:
\* cg3 / 3 / areasum2
GetCentroid(sum) ==
    Pt(Float64Div(Float64Div(sum.cg3.x, Float64(3, 1)), sum.areasum2),
       Float64Div(Float64Div(sum.cg3.y, Float64(3, 1)), sum.areasum2))

\* shapely: the centroid of a Point is the point, of a Polygon that of its
\* ring
GeosCentroid(g) ==
    IF g.type = "Point" THEN g ELSE GetCentroid(AddShell(g.ring, Len(g.ring) - 1))

\* EPSG:3857 is the Mercator projection of a sphere of EarthRadius metres:
\* x = R * lon and y = R * asinh(tan(lat)) for lon and lat in radians
EarthRadius == Float64(6378137, 1)

\* math.pi, pi / 180 and 180 / pi
Pi == Hex64(FALSE, <<9, 2, 1, 15, 11, 5, 4, 4, 4, 2, 13, 1, 8>>, 1)
DegToRad == Float64Div(Pi, Float64(180, 1))
RadToDeg == Float64Div(Float64(180, 1), Pi)

\* libm's asinh(tan(phi)) at the latitudes phi, in radians, of the input files
AsinhTan ==
    (Zero
        :> Zero)
    @@ (Hex64(FALSE, <<4, 9, 6, 11, 7, 12, 5, 3, 12, 5, 11, 0, 2>>, -13)
        :> Hex64(FALSE, <<4, 9, 6, 11, 7, 12, 6, 10, 8, 0, 0, 3, 15>>, -13))
    @@ (Hex64(FALSE, <<4, 9, 6, 11, 7, 12, 5, 3, 12, 5, 11, 0, 2>>, -12)
        :> Hex64(FALSE, <<4, 9, 6, 11, 7, 12, 10, 14, 10, 14, 15, 15, 7>>, -12))
    @@ (Hex64(FALSE, <<14, 14, 2, 1, 3, 10, 7, 13, 10, 8, 8, 8, 3>>, -12)
        :> Hex64(FALSE, <<14, 14, 2, 1, 3, 11, 11, 0, 7, 11, 15, 4, 9>>, -12))
    @@ (Hex64(FALSE, <<9, 11, 12, 6, 5, 11, 6, 8, 11, 7, 1, 12, 2>>, -11)
        :> Hex64(FALSE, <<9, 11, 12, 6, 5, 14, 2, 14, 15, 5, 13, 14, 0>>, -11))
    @@ (Hex64(FALSE, <<4, 9, 6, 11, 7, 12, 5, 3, 12, 5, 11, 0, 2>>, -10)
        :> Hex64(FALSE, <<4, 9, 6, 11, 8, 2, 0, 2, 5, 10, 12, 8, 13>>, -10))
    @@ (Hex64(FALSE, <<9, 11, 12, 6, 5, 11, 6, 8, 11, 7, 1, 12, 2>>, -10)
        :> Hex64(FALSE, <<9, 11, 12, 6, 6, 6, 8, 1, 11, 2, 7, 9, 13>>, -10))
    @@ (Hex64(FALSE, <<3, 4, 13, 4, 12, 4, 8, 14, 8, 9, 5, 5, 2>>, -9)
        :> Hex64(FALSE, <<3, 4, 13, 4, 13, 7, 4, 8, 11, 2, 7, 5, 7>>, -9))
    @@ (Hex64(FALSE, <<9, 11, 12, 6, 5, 11, 6, 8, 11, 7, 1, 12, 2>>, -9)
        :> Hex64(FALSE, <<9, 11, 12, 6, 8, 7, 12, 12, 10, 9, 15, 4, 15>>, -9))
    @@ (Hex64(FALSE, <<12, 4, 15, 3, 12, 10, 15, 3, 2, 15, 13, 2, 3>>, -9)
        :> Hex64(FALSE, <<12, 4, 15, 4, 0, 6, 0, 8, 9, 12, 3, 9, 8>>, -9))

\* libm's atan(sinh(v)) at the northings v, in Earth radii, of the turbines of
\* the input files
AtanSinh ==
    (Hex64(TRUE, <<12, 11, 10, 10, 11, 10, 4, 13, 4, 12, 4, 2, 15>>, -14)
        :> Hex64(TRUE, <<12, 11, 10, 10, 11, 10, 3, 13, 13, 12, 3, 15, 5>>, -14))
    @@ (Hex64(FALSE, <<5, 0, 11, 1, 12, 10, 12, 0, 2, 0, 6, 11, 10>>, -23)
        :> Hex64(FALSE, <<5, 0, 11, 1, 12, 10, 12, 0, 2, 0, 6, 10, 1>>, -23))
    @@ (Hex64(FALSE, <<12, 12, 15, 11, 6, 12, 1, 8, 0, 12, 6, 3, 6>>, -14)
        :> Hex64(FALSE, <<12, 12, 15, 11, 6, 12, 0, 8, 7, 10, 5, 10, 9>>, -14))
    @@ (Hex64(FALSE, <<4, 8, 12, 13, 9, 15, 15, 15, 9, 15, 10, 9, 2>>, -13)
        :> Hex64(FALSE, <<4, 8, 12, 13, 9, 15, 14, 9, 0, 5, 15, 2, 4>>, -13))
    @@ (Hex64(FALSE, <<4, 9, 2, 1, 12, 12, 7, 2, 4, 15, 11, 1, 3>>, -13)
        :> Hex64(FALSE, <<4, 9, 2, 1, 12, 12, 5, 11, 10, 4, 9, 10, 7>>, -13))
    @@ (Hex64(FALSE, <<4, 9, 6, 11, 7, 12, 6, 10, 8, 0, 0, 3, 14>>, -13)
        :> Hex64(FALSE, <<4, 9, 6, 11, 7, 12, 5, 3, 12, 5, 11, 0, 1>>, -13))
    @@ (Hex64(FALSE, <<4, 8, 12, 13, 9, 15, 15, 15, 9, 15, 10, 9, 2>>, -12)
        :> Hex64(FALSE, <<4, 8, 12, 13, 9, 15, 10, 5, 3, 8, 12, 13, 12>>, -12))
    @@ (Hex64(FALSE, <<4, 8, 15, 7, 11, 6, 3, 8, 15, 7, 10, 13, 2>>, -12)
        :> Hex64(FALSE, <<4, 8, 15, 7, 11, 5, 13, 14, 6, 14, 1, 6, 8>>, -12))
    @@ (Hex64(FALSE, <<4, 9, 6, 11, 7, 12, 10, 14, 10, 14, 15, 15, 6>>, -12)
        :> Hex64(FALSE, <<4, 9, 6, 11, 7, 12, 5, 3, 12, 5, 11, 0, 1>>, -12))
    @@ (Hex64(FALSE, <<14, 13, 3, 4, 6, 15, 15, 15, 6, 15, 7, 13, 10>>, -12)
        :> Hex64(FALSE, <<14, 13, 3, 4, 6, 14, 12, 14, 5, 4, 5, 9, 14>>, -12))
    @@ (Hex64(FALSE, <<14, 14, 2, 1, 3, 11, 11, 0, 7, 11, 15, 4, 8>>, -12)
        :> Hex64(FALSE, <<14, 14, 2, 1, 3, 10, 7, 13, 10, 8, 8, 8, 2>>, -12))
    @@ (Hex64(FALSE, <<9, 11, 0, 1, 0, 7, 15, 15, 8, 7, 9, 3, 6>>, -11)
        :> Hex64(FALSE, <<9, 11, 0, 1, 0, 5, 3, 13, 4, 4, 0, 7, 9>>, -11))
    @@ (Hex64(FALSE, <<9, 11, 1, 6, 1, 3, 1, 12, 3, 3, 9, 5, 6>>, -11)
        :> Hex64(FALSE, <<9, 11, 1, 6, 1, 0, 5, 9, 8, 3, 8, 8, 9>>, -11))
    @@ (Hex64(FALSE, <<9, 11, 2, 11, 1, 14, 3, 8, 13, 15, 9, 7, 7>>, -11)
        :> Hex64(FALSE, <<9, 11, 2, 11, 1, 11, 7, 5, 12, 2, 15, 14, 9>>, -11))
    @@ (Hex64(FALSE, <<9, 11, 12, 6, 5, 14, 2, 14, 15, 5, 13, 13, 15>>, -11)
        :> Hex64(FALSE, <<9, 11, 12, 6, 5, 11, 6, 8, 11, 7, 1, 12, 1>>, -11))
    @@ (Hex64(FALSE, <<3, 4, 4, 0, 12, 5, 15, 15, 10, 5, 10, 14, 9>>, -9)
        :> Hex64(FALSE, <<3, 4, 4, 0, 11, 3, 6, 0, 5, 15, 3, 14, 12>>, -9))
    @@ (Hex64(FALSE, <<3, 4, 13, 4, 13, 7, 4, 8, 11, 2, 7, 5, 7>>, -9)
        :> Hex64(FALSE, <<3, 4, 13, 4, 12, 4, 8, 14, 8, 9, 5, 5, 2>>, -9))

\* pyproj: one coordinate pair from EPSG:4326 (degrees) to EPSG:3857
\* (metres)
MercatorForward(p) ==
    Pt(Float64Mul(EarthRadius, Float64Mul(p.x, DegToRad)),
       Float64Mul(EarthRadius, AsinhTan[Float64Mul(p.y, DegToRad)]))

\* PROJ's ra, 1.0 / a: the inverse projection multiplies by it where the
\* forward one multiplies by the radius a
Ra == Float64Div(Float64(1, 1), EarthRadius)

\* pyproj: one coordinate pair from EPSG:3857 to EPSG:4326
MercatorInverse(p) ==
    Pt(Float64Mul(Float64Mul(p.x, Ra), RadToDeg),
       Float64Mul(AtanSinh[Float64Mul(p.y, Ra)], RadToDeg))

\* ------------------------------------------------------------ inputs
\* The features of the input files lie on a grid: a Point is <<x, y>> and a
\* rectangle <<x0, y0, x1, y1>> in grid steps.  A file in EPSG:3857 has a
\* grid step of GridMetres metres, any other file one of GridMilliDegrees
\* thousandths of a degree.
GridMetres == 1000
GridMilliDegrees == 9

\* wind_turbines.geojson: Point and MultiPoint features
TurbineFeatures ==
    { [id |-> "t0", parts |-> << <<1, 1>> >>],
      [id |-> "t2", parts |-> << <<1, 3>> >>],
      [id |-> "t5", parts |-> << <<4, 5>> >>],
      [id |-> "tm", parts |-> << <<2, 2>>, <<15, 15>> >>] }

\* bezirksgrenzen.geojson: Polygon and MultiPolygon features
CityFeatures ==
    { [id |-> "A", parts |-> << <<0, 0, 2, 2>> >>],
      [id |-> "B", parts |-> << <<8, 0, 10, 2>> >>],
      [id |-> "C", parts |-> << <<0, 8, 2, 10>>, <<20, 20, 22, 22>> >>] }

\* the coordinate reference systems the two files declare, turbines first
\* ("NONE": "crs": null)
FileCrs ==
    { <<"EPSG:4326", "EPSG:4326">>,
      <<"EPSG:3857", "EPSG:3857">>,
      <<"EPSG:3857", "EPSG:4326">>,
      <<"NONE", "EPSG:4326">>,
      <<"EPSG:4326", "NONE">> }

BoundedSeq(S, n) == UNION {[1..k -> S] : k \in 0..n}

\* the number a file has for k grid steps: a float of the JSON text
FileNumber(k, crs) ==
    IF crs = "EPSG:3857" THEN Float64(GridMetres * k, 1)
    ELSE Float64(GridMilliDegrees * k, 1000)

\* the geometry of two numbers, a Point, or of four, a rectangle
Geometry(n) == IF Len(n) = 2 THEN Pt(n[1], n[2]) ELSE Rect(n[1], n[2], n[3], n[4])

\* a part of a feature as the file has it
FilePart(g, crs) == Geometry([k \in 1..Len(g) |-> FileNumber(g[k], crs)] \o <<>>)

\* a feature as the file has it
InCrs(f, crs) ==
    [f EXCEPT !.parts = [k \in 1..Len(f.parts) |-> FilePart(f.parts[k], crs)] \o <<>>]

\* a function held as a table of its values
Table(f) == f @@ <<>>

\* the features as the files have them, written once
Features ==
    Table([crs \in {"EPSG:4326", "EPSG:3857", "NONE"} |->
              Table([f \in TurbineFeatures \cup CityFeatures |-> InCrs(f, crs)])])

GeoJson(crs, fs) ==
    [crs |-> crs, features |-> [k \in 1..Len(fs) |-> Features[crs][fs[k]]] \o <<>>]

\* a point of a file in metres
Metres(x, y) == Pt(Float64(x, 1), Float64(y, 1))

\* the planar scenario: files already in EPSG:3857, coordinates in metres: one square district
\* with corners (0,0) and (2,2), turbines due north of its centre (1,1) by
\* 1000, 2000, 5000 and 5001 m, one 100 m east of the one at 5000 m
\* (5000.99998 m from the centre), and a MultiPoint of three turbines 700 m
\* north, east and south of it
ScenarioTurbines ==
    { [id |-> "n1000", parts |-> <<Metres(1, 1001)>>],
      [id |-> "n2000", parts |-> <<Metres(1, 2001)>>],
      [id |-> "n5000", parts |-> <<Metres(1, 5001)>>],
      [id |-> "n5001", parts |-> <<Metres(1, 5002)>>],
      [id |-> "e100", parts |-> <<Metres(101, 5001)>>],
      [id |-> "r700", parts |-> <<Metres(1, 701), Metres(701, 1), Metres(1, -699)>>] }

ScenarioCities ==
    <<[id |-> "square",
       parts |-> <<Rect(Float64(0, 1), Float64(0, 1), Float64(2, 1), Float64(2, 1))>>]>>

\* ------------------------------------------- geometry worked out once
\* What the run works out from the coordinates of the input files alone is
\* worked out once for all runs: the projected points, the centroids and the
\* distances.  A table holds the values of the operator it is read for.

\* value, read from the table where the table has it for x
Memo(table, x, value) == IF x \in DOMAIN table THEN table[x] ELSE value

Range(f) == {f[x] : x \in DOMAIN f}

RECURSIVE Parts(_)
Parts(fs) ==
    IF fs = {} THEN {}
    ELSE LET f == CHOOSE x \in fs : TRUE
         IN  {f.parts[k] : k \in 1..Len(f.parts)} \cup Parts(fs \ {f})

\* the turbines and the districts of the files as a file in crs has them
TurbinePoints(crs) == {FilePart(g, crs) : g \in Parts(TurbineFeatures)}

DistrictPolygons(crs) == {FilePart(g, crs) : g \in Parts(CityFeatures)}

\* the points and the ring vertices of the geographic files
GeographicPoints ==
    TurbinePoints("EPSG:4326")
        \cup UNION {{g.ring[k] : k \in 1..Len(g.ring)} : g \in DistrictPolygons("EPSG:4326")}

Forward == Table([p \in GeographicPoints |-> MercatorForward(p)])

ToMetres(p) == Memo(Forward, p, MercatorForward(p))

\* the turbines of the files, in metres
PlanarPoints ==
    {ToMetres(p) : p \in TurbinePoints("EPSG:4326")}
        \cup TurbinePoints("EPSG:3857")
        \cup Parts(ScenarioTurbines)

Backward == Table([p \in PlanarPoints |-> MercatorInverse(p)])

ToDegrees(p) == Memo(Backward, p, MercatorInverse(p))

\* pyproj: one coordinate pair between EPSG:4326 and EPSG:3857; a frame
\* that is in the target system already stays as it is
TransformPoint(p, from, to) ==
    IF from = to THEN p
    ELSE IF to = "EPSG:3857" THEN ToMetres(p)
    ELSE ToDegrees(p)

\* the points of a geometry, and the geometry of its kind with other points
Vertices(g) == IF g.type = "Point" THEN <<g>> ELSE g.ring
WithVertices(g, ps) == IF g.type = "Point" THEN ps[1] ELSE [type |-> "Polygon", ring |-> ps]

\* points from one CRS to another
TransformPoints(ps, from, to) ==
    [k \in 1..Len(ps) |-> TransformPoint(ps[k], from, to)] \o <<>>

\* every point of the geometry is transformed
TransformGeom(g, from, to) == WithVertices(g, TransformPoints(Vertices(g), from, to))

\* the districts of the files, in metres
PlanarPolygons ==
    {[type |-> "Polygon", ring |-> [k \in 1..Len(g.ring) |-> ToMetres(g.ring[k])] \o <<>>] :
        g \in DistrictPolygons("EPSG:4326")}
        \cup DistrictPolygons("EPSG:3857")
        \cup Parts({ScenarioCities[k] : k \in 1..Len(ScenarioCities)})

Centroids3857 == Table([g \in PlanarPolygons |-> GeosCentroid(g)])

\* shapely: centroid of a geometry
Centroid(g) == IF g.type = "Point" THEN g ELSE Memo(Centroids3857, g, GeosCentroid(g))

\* (mutant: the signed coordinate difference, no square and root)
DistanceSigned(a, b) == Float64Add(Float64Sub(a.x, b.x), Float64Sub(a.y, b.y))

\* GEOS Coordinate::distance: sqrt(dx * dx + dy * dy)
Hypot(dx, dy) == Float64Sqrt(Float64Add(Float64Mul(dx, dx), Float64Mul(dy, dy)))

PointDistance(a, b) == Hypot(Float64Sub(a.x, b.x), Float64Sub(a.y, b.y))

\* the distances from the centroids of the districts to the turbines
Distances ==
    Table([pair \in Range(Centroids3857) \X PlanarPoints
              |-> PointDistance(pair[1], pair[2])])

\* shapely: Euclidean distance between two points, in the units of the
\* coordinates (metres in EPSG:3857)
Distance(a, b) == Memo(Distances, <<a, b>>, PointDistance(a, b))

Thousand == Float64(MetresPerKm, 1)

Kilometres == Table([d \in Range(Distances) |-> Float64Div(d, Thousand)])

\* metres / 1000
ToKm(d) == Memo(Kilometres, d, Float64Div(d, Thousand))

\* ------------------------------------------------------ GeoDataFrame
\* a frame is [crs, rows]; a row is a record with at least id and geometry
Unbound == [crs |-> "unbound", rows |-> <<>>]

RECURSIVE PartsToRows(_, _)
PartsToRows(f, parts) ==
    IF parts = <<>> THEN <<>>
    ELSE <<[id |-> f.id, geometry |-> parts[1]]>> \o PartsToRows(f, Tail(parts))

\* (mutant: no explode, a multi-part feature stays one row, its first part)
RECURSIVE ExplodeFeaturesFirstPart(_)
ExplodeFeaturesFirstPart(fs) ==
    IF fs = <<>> THEN <<>>
    ELSE <<[id |-> fs[1].id, geometry |-> fs[1].parts[1]]>>
         \o ExplodeFeaturesFirstPart(Tail(fs))

RECURSIVE ExplodeFeatures(_)
ExplodeFeatures(fs) ==
    IF fs = <<>> THEN <<>>
    ELSE PartsToRows(fs[1], fs[1].parts) \o ExplodeFeatures(Tail(fs))

\* gpd.read_file(path).explode(index_parts=False): one row per part, the
\* feature's index repeated
ReadExplode(file) == [crs |-> file.crs, rows |-> ExplodeFeatures(file.features)]

\* (mutant: the distance column is rescaled along with the coordinates)
ToCrsAllColumns(gdf, to) ==
    [gdf EXCEPT
     !.crs = to,
     !.rows = [k \in 1..Len(gdf.rows) |->
                 IF "nearest_dist" \in DOMAIN gdf.rows[k] /\ to = "EPSG:4326"
                 THEN [gdf.rows[k] EXCEPT
                          !.geometry = TransformGeom(@, gdf.crs, to),
                          !.nearest_dist = ToKm(@)]
                 ELSE [gdf.rows[k] EXCEPT
                          !.geometry = TransformGeom(@, gdf.crs, to)]]]

\* (mutant: the reprojected frame is dropped, the frame stays as it was)
ToCrsNotAssigned(gdf, to) == gdf

\* GeoDataFrame.to_crs(epsg=...): only the geometry column is transformed
ToCrs(gdf, to) ==
    [gdf EXCEPT
     !.crs = to,
     !.rows = [k \in 1..Len(gdf.rows) |->
                 [gdf.rows[k] EXCEPT !.geometry = TransformGeom(@, gdf.crs, to)]]]

Column(rows, c) == [k \in 1..Len(rows) |-> rows[k][c]]

\* (mutant: the distance to the last centroid, whichever is nearest)
NearestDistLast(x, centroids) ==
    IF centroids = <<>> THEN NaN
    ELSE ToKm(Distance(centroids[Len(centroids)], x))

\* (mutant: the distance left in metres)
NearestDistMetres(x, centroids) ==
    SeriesMin([k \in 1..Len(centroids) |-> Distance(centroids[k], x)])

\* (mutant: the farthest centroid instead of the nearest)
NearestDistMax(x, centroids) ==
    ToKm(SeriesMax([k \in 1..Len(centroids) |-> Distance(centroids[k], x)]))

\* lambda x: cities['centroid'].distance(x).min() / 1000
NearestDist(x, centroids) ==
    ToKm(SeriesMin([k \in 1..Len(centroids) |-> Distance(centroids[k], x)]))

\* the 5 and the 2 of the comparisons, as the floats they are compared as
Threshold == Float64(ThresholdKm, 1)
NearBand == Float64(NearBandKm, 1)

\* (mutant: the comparison reversed)
BeyondThreshold(r) == Le(Threshold, r.nearest_dist)

\* (mutant: a strict bound)
BelowThreshold(r) == Lt(r.nearest_dist, Threshold)

\* turbines['nearest_dist'] <= 5
WithinThreshold(r) == Le(r.nearest_dist, Threshold)

\* (mutant: of the rows with one distance only the first is kept)
FilterCloseFirstOfEach(rows) ==
    LET keep(p) == /\ WithinThreshold(p.row)
                   /\ \A j \in 1..(p.k - 1) :
                         rows[j].nearest_dist # p.row.nearest_dist
        kept == SelectSeq([k \in 1..Len(rows) |-> [k |-> k, row |-> rows[k]]], keep)
    IN  [j \in 1..Len(kept) |-> kept[j].row]

\* turbines[mask]: the rows whose mask is True, in order
FilterClose(rows) == SelectSeq(rows, WithinThreshold)

\* (mutant: rows without a centroid in range are dropped while the column is built)
ApplyNearestDistDropFar(rows, centroids) ==
    SelectSeq([k \in 1..Len(rows) |->
                  [id |-> rows[k].id,
                   geometry |-> rows[k].geometry,
                   nearest_dist |-> NearestDist(rows[k].geometry, centroids)]],
              WithinThreshold)

\* (mutant: a minimum carried over from row to row)
ApplyNearestDistRunningMin(rows, centroids) ==
    [k \in 1..Len(rows) |->
        [id |-> rows[k].id,
         geometry |-> rows[k].geometry,
         nearest_dist |-> SeriesMin([j \in 1..k |->
                                       NearestDist(rows[j].geometry, centroids)])]]

\* turbines['nearest_dist'] = turbines.geometry.apply(lambda x: ...): one value
\* per row, in row order
ApplyNearestDist(rows, centroids) ==
    [k \in 1..Len(rows) |->
        [id |-> rows[k].id,
         geometry |-> rows[k].geometry,
         nearest_dist |-> NearestDist(rows[k].geometry, centroids)]]

\* (mutant: an inclusive bound)
MarkerColorInclusive(dist) == IF Le(dist, NearBand) THEN "red" ELSE "orange"

\* if dist < 2: 'red' else: 'orange'
MarkerColor(dist) == IF Lt(dist, NearBand) THEN "red" ELSE "orange"

\* Series.apply on a Series without rows calls nothing and gives an empty
\* Series of the caller's dtype, geometry for turbines.geometry; on any
\* other the results make the Series, float64 for the lambda's floats
ApplyDtype(rows) == IF rows = <<>> THEN "geometry" ELSE "float64"

MarkerRadius == 6
FillOpacity == Float64(7, 10)

\* folium.CircleMarker(location=[row.geometry.y, row.geometry.x], radius=6,
\* color=color, fill=True, fill_opacity=0.7, popup=f"{dist:.2f} km to city"),
\* the popup a character at a time up to its fixed end
CircleMarker(row) ==
    [location |-> <<row.geometry.y, row.geometry.x>>,
     radius |-> MarkerRadius,
     color |-> MarkerColor(row.nearest_dist),
     fill |-> TRUE,
     fill_opacity |-> FillOpacity,
     popup |-> Format2f(row.nearest_dist) \o <<" km to city">>]

\* ------------------------------------------------------------- state
VARIABLES
    turbines_file,    \* wind_turbines.geojson
    cities_file,      \* bezirksgrenzen.geojson
    pc,               \* the statement to run next
    turbines,         \* GeoDataFrame
    cities,           \* GeoDataFrame; rows gain 'centroid'
    close_turbines,   \* GeoDataFrame
    m,                \* folium.Map: its markers
    i,                \* the marker loop's position in close_turbines
    html_file,        \* wind_turbines_proximity_final.html
    png_file,         \* distance_histogram.png
    stdout,           \* the summary cell's printed lines
    error             \* the exception that stopped the run

vars == <<turbines_file, cities_file, pc, turbines, cities, close_turbines,
          m, i, html_file, png_file, stdout, error>>

NoFile == [saved |-> FALSE]
NoOutput == [printed |-> FALSE]

Init ==
    /\ \E crs \in FileCrs :
          /\ \E fs \in BoundedSeq(TurbineFeatures, MaxTurbines) :
                turbines_file = GeoJson(crs[1], fs)
          /\ \E fs \in BoundedSeq(CityFeatures, MaxCities) :
                cities_file = GeoJson(crs[2], fs)
    /\ pc = "read_turbines"
    /\ turbines = Unbound
    /\ cities = Unbound
    /\ close_turbines = Unbound
    /\ m = <<>>
    /\ i = 0
    /\ html_file = NoFile
    /\ png_file = NoFile
    /\ stdout = NoOutput
    /\ error = "none"

\* (mutant: the exception is caught and the cell goes on)
RaiseSwallowed(e) ==
    /\ pc' = "centroid"
    /\ error' = e

\* an exception ends the run: no later statement or cell executes
Raise(e) ==
    /\ pc' = "aborted"
    /\ error' = e

\* turbines = gpd.read_file("wind_turbines.geojson").explode(index_parts=False)
ReadTurbines ==
    /\ pc = "read_turbines"
    /\ turbines' = ReadExplode(turbines_file)
    /\ pc' = "read_cities"
    /\ UNCHANGED <<turbines_file, cities_file, cities, close_turbines, m, i,
                   html_file, png_file, stdout, error>>

\* cities = gpd.read_file("bezirksgrenzen.geojson").explode(index_parts=False)
ReadCities ==
    /\ pc = "read_cities"
    /\ cities' = ReadExplode(cities_file)
    /\ pc' = "to_crs_turbines"
    /\ UNCHANGED <<turbines_file, cities_file, turbines, close_turbines, m, i,
                   html_file, png_file, stdout, error>>

\* turbines = turbines.to_crs(epsg=3857); a frame without a crs raises ValueError
ToCrsTurbines ==
    /\ pc = "to_crs_turbines"
    /\ IF turbines.crs = "NONE"
       THEN /\ Raise("ValueError")
            /\ UNCHANGED turbines
       ELSE /\ turbines' = ToCrs(turbines, "EPSG:3857")
            /\ pc' = "to_crs_cities"
            /\ UNCHANGED error
    /\ UNCHANGED <<turbines_file, cities_file, cities, close_turbines, m, i,
                   html_file, png_file, stdout>>

\* (mutant: the frame is transformed without a look at its CRS)
ToCrsCitiesUnchecked ==
    /\ pc = "to_crs_cities"
    /\ cities' = ToCrs(cities, "EPSG:3857")
    /\ pc' = "centroid"
    /\ UNCHANGED <<turbines_file, cities_file, turbines, close_turbines, m, i,
                   html_file, png_file, stdout, error>>

\* cities = cities.to_crs(epsg=3857)
ToCrsCities ==
    /\ pc = "to_crs_cities"
    /\ IF cities.crs = "NONE"
       THEN /\ Raise("ValueError")
            /\ UNCHANGED cities
       ELSE /\ cities' = ToCrs(cities, "EPSG:3857")
            /\ pc' = "centroid"
            /\ UNCHANGED error
    /\ UNCHANGED <<turbines_file, cities_file, turbines, close_turbines, m, i,
                   html_file, png_file, stdout>>

\* cities['centroid'] = cities.geometry.centroid
AssignCentroid ==
    /\ pc = "centroid"
    /\ cities' = [cities EXCEPT !.rows =
                    [k \in 1..Len(cities.rows) |->
                        [id |-> cities.rows[k].id,
                         geometry |-> cities.rows[k].geometry,
                         centroid |-> Centroid(cities.rows[k].geometry)]]]
    /\ pc' = "nearest_dist"
    /\ UNCHANGED <<turbines_file, cities_file, turbines, close_turbines, m, i,
                   html_file, png_file, stdout, error>>

\* turbines['nearest_dist'] = turbines.geometry.apply(lambda x: ...)
AssignNearestDist ==
    /\ pc = "nearest_dist"
    /\ turbines' = [crs |-> turbines.crs,
                    rows |-> ApplyNearestDist(turbines.rows, Column(cities.rows, "centroid")),
                    dtypes |-> [nearest_dist |-> ApplyDtype(turbines.rows)]]
    /\ pc' = "filter"
    /\ UNCHANGED <<turbines_file, cities_file, cities, close_turbines, m, i,
                   html_file, png_file, stdout, error>>

\* close_turbines = turbines[turbines['nearest_dist'] <= 5]; a geometry
\* column has no <=, and the comparison raises TypeError
Filter ==
    /\ pc = "filter"
    /\ IF turbines.dtypes.nearest_dist = "geometry"
       THEN /\ Raise("TypeError")
            /\ UNCHANGED close_turbines
       ELSE /\ close_turbines' = [turbines EXCEPT !.rows = FilterClose(@)]
            /\ pc' = "to_crs_close"
            /\ UNCHANGED error
    /\ UNCHANGED <<turbines_file, cities_file, turbines, cities, m, i,
                   html_file, png_file, stdout>>

\* close_turbines = close_turbines.to_crs(epsg=4326)
ToCrsClose ==
    /\ pc = "to_crs_close"
    /\ close_turbines' = ToCrs(close_turbines, "EPSG:4326")
    /\ pc' = "map"
    /\ UNCHANGED <<turbines_file, cities_file, turbines, cities, m, i,
                   html_file, png_file, stdout, error>>

\* m = folium.Map(location=[52.52, 13.4], zoom_start=11)
CreateMap ==
    /\ pc = "map"
    /\ m' = <<>>
    /\ i' = 1
    /\ pc' = "markers"
    /\ UNCHANGED <<turbines_file, cities_file, turbines, cities, close_turbines,
                   html_file, png_file, stdout, error>>

\* (mutant: only the turbines of the near band get a marker)
AddMarkerNearOnly ==
    /\ pc = "markers"
    /\ i <= Len(close_turbines.rows)
    /\ m' = IF MarkerColor(close_turbines.rows[i].nearest_dist) = "red"
            THEN Append(m, CircleMarker(close_turbines.rows[i]))
            ELSE m
    /\ i' = i + 1
    /\ UNCHANGED <<turbines_file, cities_file, pc, turbines, cities, close_turbines,
                   html_file, png_file, stdout, error>>

\* one iteration of: for _, row in close_turbines.iterrows(): ... .add_to(m)
AddMarker ==
    /\ pc = "markers"
    /\ i <= Len(close_turbines.rows)
    /\ m' = Append(m, CircleMarker(close_turbines.rows[i]))
    /\ i' = i + 1
    /\ UNCHANGED <<turbines_file, cities_file, pc, turbines, cities, close_turbines,
                   html_file, png_file, stdout, error>>

\* the loop is exhausted; m.save("wind_turbines_proximity_final.html")
SaveMap ==
    /\ pc = "markers"
    /\ i > Len(close_turbines.rows)
    /\ html_file' = [saved |-> TRUE, markers |-> m]
    /\ pc' = "hist"
    /\ UNCHANGED <<turbines_file, cities_file, turbines, cities, close_turbines,
                   m, i, png_file, stdout, error>>

\* close_turbines['nearest_dist'] of the histogram cell
HistSeries == Column(close_turbines.rows, "nearest_dist")

\* close_turbines['nearest_dist'].hist(bins=10, ...); plt.savefig(...)
PlotHistogram ==
    /\ pc = "hist"
    /\ png_file' = [saved |-> TRUE, data |-> HistSeries, bins |-> HistBins]
    /\ pc' = "summary"
    /\ UNCHANGED <<turbines_file, cities_file, turbines, cities, close_turbines,
                   m, i, html_file, stdout, error>>

\* (mutant: the whole distance column)
SummarySeriesAll == Column(turbines.rows, "nearest_dist")

\* close_turbines['nearest_dist'] of the summary cell
SummarySeries == Column(close_turbines.rows, "nearest_dist")

\* the four print(...) lines of the summary cell
PrintSummary ==
    /\ pc = "summary"
    /\ stdout' = [printed |-> TRUE,
                  count |-> Len(close_turbines.rows),
                  mean |-> SeriesMean(SummarySeries),
                  min |-> SeriesMin(SummarySeries),
                  max |-> SeriesMax(SummarySeries)]
    /\ pc' = "done"
    /\ UNCHANGED <<turbines_file, cities_file, turbines, cities, close_turbines,
                   m, i, html_file, png_file, error>>

Next ==
    \/ ReadTurbines
    \/ ReadCities
    \/ ToCrsTurbines
    \/ ToCrsCities
    \/ AssignCentroid
    \/ AssignNearestDist
    \/ Filter
    \/ ToCrsClose
    \/ CreateMap
    \/ AddMarker
    \/ SaveMap
    \/ PlotHistogram
    \/ PrintSummary

Spec == Init /\ [][Next]_vars

\* ---------------------------------------------------- planar scenario
\* the run on the files of the planar scenario
InitScenario ==
    /\ \E fs \in BoundedSeq(ScenarioTurbines, MaxTurbines) :
          turbines_file = [crs |-> "EPSG:3857", features |-> fs]
    /\ cities_file = [crs |-> "EPSG:3857", features |-> ScenarioCities]
    /\ pc = "read_turbines"
    /\ turbines = Unbound
    /\ cities = Unbound
    /\ close_turbines = Unbound
    /\ m = <<>>
    /\ i = 1
    /\ html_file = NoFile
    /\ png_file = NoFile
    /\ stdout = NoOutput
    /\ error = "none"

SpecScenario == InitScenario /\ [][Next]_vars

\* ------------------------------------------------------------ claims
\* the statements after which turbines carries the nearest_dist column
HasDist == pc \in {"filter", "to_crs_close", "map", "markers", "hist", "summary", "done"}

\* the statements after which close_turbines is bound
Filtered == pc \in {"to_crs_close", "map", "markers", "hist", "summary", "done"}

Centroids == Column(cities.rows, "centroid")

\* the distance in km from turbine row k to centroid c
KmTo(k, c) == ToKm(Distance(Centroids[c], turbines.rows[k].geometry))

\* a row as the filter and the reprojection leave it: all but its geometry
Key(r) == [id |-> r.id, nearest_dist |-> r.nearest_dist]

Count(rows, key) == Cardinality({k \in 1..Len(rows) : Key(rows[k]) = key})

\* the distance in km between a geometry and a centroid
Km(x, c) == ToKm(Distance(c, x))

\* every row's nearest_dist is the least of its distances to the centroids
NearestIsMinimum(rows, cs) ==
    \A k \in 1..Len(rows) :
        /\ \A c \in 1..Len(cs) : Le(rows[k].nearest_dist, Km(rows[k].geometry, cs[c]))
        /\ \E c \in 1..Len(cs) : rows[k].nearest_dist = Km(rows[k].geometry, cs[c])

\* C1: with at least one centroid, the distance step gives each turbine a
\* nearest_dist that is <= its distance to every centroid and equal to its
\* distance to some centroid.
C1_NearestIsMinimum ==
    [][(pc = "nearest_dist" /\ Centroids # <<>>)
            => NearestIsMinimum(turbines'.rows, Column(cities'.rows, "centroid"))]_vars

\* a turbine whose first centroid is farther than its nearest one, and a
\* turbine with two equidistant nearest centroids
C1_Witness ==
    /\ HasDist
    /\ \E k \in 1..Len(turbines.rows) :
          /\ Len(Centroids) >= 2
          /\ Lt(turbines.rows[k].nearest_dist, KmTo(k, 1))
    /\ \E k \in 1..Len(turbines.rows) : \E c, d \in 1..Len(Centroids) :
          /\ c # d
          /\ Centroids[c] # Centroids[d]
          /\ KmTo(k, c) = KmTo(k, d)
          /\ turbines.rows[k].nearest_dist = KmTo(k, c)

RECURSIVE PointCount(_)
PointCount(fs) == IF fs = <<>> THEN 0 ELSE Len(fs[1].parts) + PointCount(Tail(fs))

\* C2: the distance step yields one result per input point, in order (the
\* frame has as many rows after it as the file has points, each row keeping
\* its identity and position); only the filter makes the frame shorter.
C2_OneResultPerPoint ==
    [][ /\ pc = "nearest_dist" =>
            /\ Len(turbines'.rows) = Len(turbines.rows)
            /\ Len(turbines'.rows) = PointCount(turbines_file.features)
            /\ \A k \in 1..Len(turbines.rows) :
                  /\ turbines'.rows[k].id = turbines.rows[k].id
                  /\ turbines'.rows[k].geometry = turbines.rows[k].geometry
        /\ pc = "filter" => Len(close_turbines'.rows) <= Len(turbines.rows)
      ]_vars

\* the distance step has run on several points, one of which the filter drops
C2_Witness ==
    /\ Filtered
    /\ Len(turbines.rows) >= 2
    /\ Len(turbines.rows) = PointCount(turbines_file.features)
    /\ Len(close_turbines.rows) < Len(turbines.rows)

\* C3: a turbine is retained by the filter iff its nearest_dist <= 5 km;
\* each row with such a distance is in close_turbines once, no other row is.
C3_RetainedIffWithinThreshold ==
    Filtered =>
        /\ \A k \in 1..Len(turbines.rows) :
              Count(close_turbines.rows, Key(turbines.rows[k])) =
                  IF Le(turbines.rows[k].nearest_dist, Threshold)
                  THEN Count(turbines.rows, Key(turbines.rows[k]))
                  ELSE 0
        /\ \A j \in 1..Len(close_turbines.rows) :
              Count(turbines.rows, Key(close_turbines.rows[j])) > 0

\* a turbine at exactly 5 km is retained and one beyond 5 km is not
C3_Witness ==
    /\ Filtered
    /\ \E j \in 1..Len(close_turbines.rows) :
          close_turbines.rows[j].nearest_dist = Threshold
    /\ \E k \in 1..Len(turbines.rows) :
          /\ Lt(Threshold, turbines.rows[k].nearest_dist)
          /\ Count(close_turbines.rows, Key(turbines.rows[k])) = 0

\* C4: the marker of each retained turbine is red iff its distance is < 2 km
\* and orange otherwise; at exactly 2 km, and anywhere in [2, 5], it is orange.
C4_BandByNearBand ==
    (pc \in {"markers", "hist", "summary", "done"}) =>
        \A j \in 1..Len(m) :
            LET d == close_turbines.rows[j].nearest_dist
            IN  /\ m[j].color \in {"red", "orange"}
                /\ m[j].color = "red" <=> Lt(d, NearBand)
                /\ (Le(NearBand, d) /\ Le(d, Threshold)) => m[j].color = "orange"

\* the map holds a marker at exactly 2 km, orange, and a red one
C4_Witness ==
    /\ pc = "hist"
    /\ \E j \in 1..Len(m) :
          /\ close_turbines.rows[j].nearest_dist = NearBand
          /\ m[j].color = "orange"
    /\ \E j \in 1..Len(m) : m[j].color = "red"

\* the turbine rows whose distance is <= 5 km
WithinIdx == {k \in 1..Len(turbines.rows) : Le(turbines.rows[k].nearest_dist, Threshold)}

\* the distances of the turbine rows within 5 km, in row order
WithinDists ==
    Column(SelectSeq(turbines.rows, LAMBDA r : Le(r.nearest_dist, Threshold)),
           "nearest_dist")

\* C5: the printed statistics are those of exactly the turbines with
\* distance <= 5 km: count is their number, mean their float64 sum over
\* their number, min and max the least and the greatest of them.
C5_SummaryOverRetained ==
    (pc = "done" /\ WithinIdx # {}) =>
        /\ stdout.count = Cardinality(WithinIdx)
        /\ ~stdout.mean.nan
        /\ stdout.mean = Float64Div(Float64Sum(WithinDists), Float64(Cardinality(WithinIdx), 1))
        /\ \E k \in WithinIdx : stdout.min = turbines.rows[k].nearest_dist
        /\ \A k \in WithinIdx : Le(stdout.min, turbines.rows[k].nearest_dist)
        /\ \E k \in WithinIdx : stdout.max = turbines.rows[k].nearest_dist
        /\ \A k \in WithinIdx : Le(turbines.rows[k].nearest_dist, stdout.max)

\* the summary is printed for a run that retained some turbines and dropped
\* others, the retained ones at different distances
C5_Witness ==
    /\ pc = "done"
    /\ Cardinality(WithinIdx) >= 2
    /\ Cardinality(WithinIdx) < Len(turbines.rows)
    /\ Lt(stdout.min, stdout.mean)
    /\ Lt(stdout.mean, stdout.max)

Running == pc \notin {"done", "aborted"}

\* the distance step has given every turbine of a file with turbines its
\* nearest_dist
Measured ==
    /\ turbines.rows # <<>>
    /\ \A k \in 1..Len(turbines.rows) : "nearest_dist" \in DOMAIN turbines.rows[k]

\* C6: when there are turbines and none of them is within 5 km (the
\* retained subset is empty) the run raises nothing and goes on to its end,
\* where it prints count 0 and NaN, which is not the number 0, for mean, min
\* and max.
C6_EmptySubsetAbsentStats ==
    (Measured /\ WithinIdx = {}) =>
        /\ error = "none"
        /\ pc # "aborted"
        /\ Running => ENABLED Next
        /\ pc = "done" =>
              /\ stdout.printed
              /\ stdout.count = 0
              /\ stdout.mean.nan /\ stdout.min.nan /\ stdout.max.nan
              /\ stdout.mean # Zero /\ stdout.min # Zero /\ stdout.max # Zero

\* a finished run with turbines and centroids, every turbine beyond 5 km
C6_Witness ==
    /\ pc = "done"
    /\ turbines.rows # <<>>
    /\ Centroids # <<>>
    /\ \A k \in 1..Len(turbines.rows) : \A c \in 1..Len(Centroids) :
          Lt(Threshold, KmTo(k, c))
    /\ stdout.count = 0

\* C7 (as claimed): with no region in bezirksgrenzen.geojson the run fails
\* with an error: no turbine gets a nearest_dist, no retained set is formed,
\* no statistics are printed, and the run does not end normally.
C7_EmptyRegionsFail ==
    cities_file.features = <<>> =>
        /\ \A k \in 1..Len(turbines.rows) :
              "nearest_dist" \notin DOMAIN turbines.rows[k]
        /\ close_turbines = Unbound
        /\ ~stdout.printed
        /\ pc # "done"

\* C8: with at least one centroid, every nearest_dist is a number >= 0.
C8_DistanceNonNegative ==
    (HasDist /\ Centroids # <<>>) =>
        \A k \in 1..Len(turbines.rows) :
            /\ ~turbines.rows[k].nearest_dist.nan
            /\ ~turbines.rows[k].nearest_dist.neg
            /\ Le(Zero, turbines.rows[k].nearest_dist)

\* distances are computed for a turbine to the lower left of its nearest
\* centroid, at a positive distance, and for one on a centroid
C8_Witness ==
    /\ HasDist
    /\ \E k \in 1..Len(turbines.rows) : \E c \in 1..Len(Centroids) :
          /\ Lt(turbines.rows[k].geometry.x, Centroids[c].x)
          /\ Lt(turbines.rows[k].geometry.y, Centroids[c].y)
          /\ turbines.rows[k].nearest_dist = KmTo(k, c)
          /\ Lt(Zero, turbines.rows[k].nearest_dist)
    /\ \E k \in 1..Len(turbines.rows) : turbines.rows[k].nearest_dist = Zero

\* a row with a centroid within 5 km
NearSomeCentroid(r, cs) ==
    \E c \in 1..Len(cs) : Le(Km(r.geometry, cs[c]), Threshold)

\* close holds each row of all that has a centroid within 5 km, once, and no
\* other
RetainedIffSomeCentroidNear(close, all, cs) ==
    /\ \A k \in 1..Len(all) :
          Count(close, Key(all[k])) =
              IF NearSomeCentroid(all[k], cs) THEN Count(all, Key(all[k])) ELSE 0
    /\ Len(close) = Cardinality({k \in 1..Len(all) : NearSomeCentroid(all[k], cs)})

\* C9: the filter puts a turbine in close_turbines iff some district centroid
\* is within 5 km of it, whatever its distance to the other centroids.
C9_RetainedIffSomeCentroidNear ==
    [][pc = "filter"
          => RetainedIffSomeCentroidNear(close_turbines'.rows, turbines'.rows,
                                         Column(cities'.rows, "centroid"))]_vars

\* a retained turbine with one centroid within 5 km and another beyond it,
\* and a dropped turbine with every centroid beyond 5 km
C9_Witness ==
    /\ Filtered
    /\ \E k \in 1..Len(turbines.rows) : \E c, d \in 1..Len(Centroids) :
          /\ Le(KmTo(k, c), Threshold)
          /\ Lt(Threshold, KmTo(k, d))
          /\ Count(close_turbines.rows, Key(turbines.rows[k])) > 0
    /\ \E k \in 1..Len(turbines.rows) :
          /\ Centroids # <<>>
          /\ ~NearSomeCentroid(turbines.rows[k], Centroids)
          /\ Count(close_turbines.rows, Key(turbines.rows[k])) = 0

\* C10 (as claimed): for a run with district centroids, the histogram is drawn
\* over the nearest_dist of every turbine, not only of the retained ones.
C10_HistogramOverAllDistances ==
    (png_file.saved /\ Centroids # <<>>)
        => png_file.data = Column(turbines.rows, "nearest_dist")

\* the marker loop has ended
MarkersDone == pc \in {"hist", "summary", "done"}

DistCount(rows, d) == Cardinality({k \in 1..Len(rows) : rows[k].nearest_dist = d})

\* the distance of the turbine that the j-th marker was made for
MarkerDist(j) == close_turbines.rows[j].nearest_dist

\* the bands the run gives to the turbines at distance d: "near" a red
\* marker, "moderate" an orange one, "excluded" a turbine left out of
\* close_turbines
BandsOf(d) ==
    {b \in {"near", "moderate", "excluded"} :
        \/ b = "near" /\ \E j \in 1..Len(m) : MarkerDist(j) = d /\ m[j].color = "red"
        \/ b = "moderate" /\ \E j \in 1..Len(m) : MarkerDist(j) = d /\ m[j].color = "orange"
        \/ b = "excluded" /\ DistCount(close_turbines.rows, d) < DistCount(turbines.rows, d)}

\* C11: the band is a function of the distance alone: all turbines at one
\* distance get one and the same band, which is near only below 2 km,
\* moderate only from 2 to 5 km and excluded only beyond 5 km (or, without
\* any centroid, for a NaN distance).
C11_BandFunctionOfDistance ==
    MarkersDone =>
        \A k \in 1..Len(turbines.rows) :
            LET d == turbines.rows[k].nearest_dist
            IN  /\ Cardinality(BandsOf(d)) = 1
                /\ "near" \in BandsOf(d) => Lt(d, NearBand)
                /\ "moderate" \in BandsOf(d) => (Le(NearBand, d) /\ Le(d, Threshold))
                /\ "excluded" \in BandsOf(d) => (Lt(Threshold, d) \/ d.nan)

\* two retained turbines at one distance with one colour, and two excluded
\* turbines at one distance
C11_Witness ==
    /\ MarkersDone
    /\ \E j, l \in 1..Len(m) :
          j # l /\ MarkerDist(j) = MarkerDist(l) /\ m[j].color = m[l].color
    /\ \E k, l \in 1..Len(turbines.rows) :
          /\ k # l
          /\ turbines.rows[k].nearest_dist = turbines.rows[l].nearest_dist
          /\ BandsOf(turbines.rows[k].nearest_dist) = {"excluded"}

\* the floats of the whole numbers of km that the thresholds range over
WholeKm == Table([t \in 0..MaxThresholdKm |-> Float64(t, 1)])

\* the number of turbines retained under a threshold of t km: what the run
\* retained for the threshold of the program, the same comparison with t in
\* place of it for any other
RetainedAt(t) ==
    IF t = ThresholdKm THEN Len(close_turbines.rows)
    ELSE Cardinality({k \in 1..Len(turbines.rows) :
                         Le(turbines.rows[k].nearest_dist, WholeKm[t])})

\* the number of retained turbines in the near band under a band of n km:
\* the red markers of the run for the band of the program, the same
\* comparison with n in place of it for any other
NearAt(n) ==
    IF n = NearBandKm
    THEN Cardinality({j \in 1..Len(m) : m[j].color = "red"})
    ELSE Cardinality({k \in 1..Len(close_turbines.rows) :
                         Lt(close_turbines.rows[k].nearest_dist, WholeKm[n])})

\* C12: for the turbines and districts of a run, a smaller threshold never
\* retains more turbines and a smaller near band never holds more of the
\* retained turbines; the counts of the run itself (threshold 5, band 2)
\* take their place in both chains.
C12_ThresholdMonotone ==
    MarkersDone =>
        /\ \A t1, t2 \in 0..MaxThresholdKm :
              t1 <= t2 => RetainedAt(t1) <= RetainedAt(t2)
        /\ \A n1, n2 \in 0..ThresholdKm :
              n1 <= n2 => NearAt(n1) <= NearAt(n2)

\* a run whose counts do fall when the threshold and the band fall by 1 km
C12_Witness ==
    /\ MarkersDone
    /\ RetainedAt(ThresholdKm - 1) < RetainedAt(ThresholdKm)
    /\ NearAt(NearBandKm - 1) < NearAt(NearBandKm)

\* the statements from the centroid derivation on
FromCentroid == {"centroid", "nearest_dist"}

\* C14: the centroids are derived and the distances computed only when both
\* frames are in the same planar metric system: from the centroid statement
\* on, turbines and cities are both in EPSG:3857, whatever systems the two
\* files came in.
C14_DistanceAfterReprojection ==
    (pc \in FromCentroid \/ HasDist) =>
        /\ turbines.crs = "EPSG:3857"
        /\ cities.crs = "EPSG:3857"

\* the distances have been computed for files that came in two different
\* systems, one of them geographic
C14_Witness ==
    /\ pc = "filter"
    /\ turbines_file.crs = "EPSG:3857"
    /\ cities_file.crs = "EPSG:4326"
    /\ turbines.rows # <<>>
    /\ Centroids # <<>>

\* the parts of all features of a file, in file order
RECURSIVE AllParts(_)
AllParts(fs) == IF fs = <<>> THEN <<>> ELSE fs[1].parts \o AllParts(Tail(fs))

\* the statements after which cities is bound
CitiesRead == pc \notin {"read_turbines", "read_cities"}

\* the statements after which cities carries the centroid column
HasCentroid == pc = "nearest_dist" \/ HasDist

\* C15: multi-part district geometries are exploded into single parts
\* before the centroids are derived: cities has one row per part from the
\* read on, and there are as many centroids as parts in the file (not as
\* features), the k-th being the centroid of the k-th part.
C15_CentroidPerPart ==
    /\ CitiesRead => Len(cities.rows) = PointCount(cities_file.features)
    /\ HasCentroid =>
          /\ Len(Centroids) = Len(AllParts(cities_file.features))
          /\ \A k \in 1..Len(Centroids) :
                Centroids[k] = Centroid(TransformGeom(AllParts(cities_file.features)[k],
                                                      cities_file.crs, "EPSG:3857"))

\* a file with a two-part district last: more centroids than features, and
\* a turbine whose nearest centroid is that of the second part alone
C15_Witness ==
    /\ pc = "filter"
    /\ Len(Centroids) > Len(cities_file.features)
    /\ Len(cities_file.features[Len(cities_file.features)].parts) = 2
    /\ \E k \in 1..Len(turbines.rows) :
          /\ turbines.rows[k].nearest_dist
                = Km(turbines.rows[k].geometry, Centroids[Len(Centroids)])
          /\ \A c \in 1..(Len(Centroids) - 1) :
                Lt(turbines.rows[k].nearest_dist,
                   Km(turbines.rows[k].geometry, Centroids[c]))

UndefinedCrs == turbines_file.crs = "NONE" \/ cities_file.crs = "NONE"

\* the statements up to the second reprojection
UpToReprojection == {"read_turbines", "read_cities", "to_crs_turbines", "to_crs_cities"}

\* C16 as stated: with an undefined CRS on either file, or two files in
\* different systems, the run fails at the reprojection, so that no
\* distance is ever computed for such files.
C16_UndefinedOrMismatchedCrsFails ==
    (/\ UndefinedCrs \/ turbines_file.crs # cities_file.crs
     /\ turbines_file.features # <<>>
     /\ cities_file.features # <<>>)
        => (~HasDist /\ pc # "done")

\* C16 (amended): with an undefined CRS on either file the run goes no
\* further than the reprojections and ends there with a ValueError, no
\* centroid derived and no distance computed; with both CRS defined, equal
\* or different, no reprojection raises, and the run gets past them.
C16_UndefinedCrsFails ==
    /\ UndefinedCrs =>
          /\ pc \in UpToReprojection \cup {"aborted"}
          /\ pc = "aborted" => error = "ValueError"
          /\ pc \in UpToReprojection => (error = "none" /\ ENABLED Next)
          /\ \A k \in 1..Len(cities.rows) : "centroid" \notin DOMAIN cities.rows[k]
          /\ \A k \in 1..Len(turbines.rows) : "nearest_dist" \notin DOMAIN turbines.rows[k]
    /\ ~UndefinedCrs =>
          /\ error # "ValueError"
          /\ pc \in UpToReprojection => (error = "none" /\ ENABLED Next)

\* the run has failed at the reprojection of the districts, whose file has
\* no CRS, after the turbines were reprojected
C16_Witness ==
    /\ pc = "aborted"
    /\ error = "ValueError"
    /\ cities_file.crs = "NONE"
    /\ cities.rows # <<>>
    /\ turbines.crs = "EPSG:3857"
    /\ turbines.rows # <<>>

\* C17: an error aborts the whole run with no partial result: once an
\* exception is raised no later statement runs, no map is built or saved, no
\* histogram is written and no summary is printed.
C17_ErrorAbortsRun ==
    error # "none" =>
        /\ pc = "aborted"
        /\ ~ENABLED Next
        /\ close_turbines = Unbound
        /\ m = <<>>
        /\ ~html_file.saved
        /\ ~png_file.saved
        /\ ~stdout.printed

\* the run has failed at the reprojection of turbines read from a file with
\* no CRS
C17_Witness ==
    /\ error = "ValueError"
    /\ turbines_file.crs = "NONE"
    /\ turbines.rows # <<>>
    /\ cities.rows # <<>>

\* a turbine file with no feature, a district file with some, both with a CRS
EmptyPoints ==
    /\ turbines_file.features = <<>>
    /\ cities_file.features # <<>>
    /\ ~UndefinedCrs

\* C18 (as claimed): with no turbine and at least one district the run raises nothing
\* and goes to its end with an empty result: no distance, an empty retained
\* frame, no marker on the saved map and a printed count of 0.
C18_EmptyPointsEmptyResult ==
    EmptyPoints =>
        /\ error = "none"
        /\ pc # "aborted"
        /\ Running => ENABLED Next
        /\ turbines.rows = <<>>
        /\ close_turbines.rows = <<>>
        /\ m = <<>>
        /\ html_file.saved => html_file.markers = <<>>
        /\ stdout.printed => stdout.count = 0

\* a sequence with the elements at positions a and b exchanged
Swap(rows, a, b) ==
    [k \in 1..Len(rows) |-> IF k = a THEN rows[b] ELSE IF k = b THEN rows[a] ELSE rows[k]]

\* the rows after the distance step are those that the step gives for each
\* row taken alone, and exchanging two rows before the step exchanges their
\* results and changes nothing else
OrderIndependent(before, after, cs) ==
    /\ \A k \in 1..Len(before) : ApplyNearestDist(<<before[k]>>, cs) = <<after[k]>>
    /\ \A a, b \in 1..Len(before) :
          ApplyNearestDist(Swap(before, a, b), cs) = Swap(after, a, b)

\* C19: the nearest distance of a turbine depends on that turbine and the
\* centroids only: the distance step gives each row what it gives that row
\* taken alone, and the same results, in the rows' places, for the rows in
\* any other order (every order is a chain of exchanges of two rows).
C19_DistanceOrderIndependent ==
    [][pc = "nearest_dist" => OrderIndependent(turbines.rows, turbines'.rows, Centroids)]_vars

\* the distance step has run on turbines at different distances from more
\* than one centroid
C19_Witness ==
    /\ pc = "filter"
    /\ Len(Centroids) >= 2
    /\ \E k, l \in 1..Len(turbines.rows) :
          /\ k < l
          /\ ~turbines.rows[k].nearest_dist.nan
          /\ Lt(turbines.rows[l].nearest_dist, turbines.rows[k].nearest_dist)

\* the turbine row k has the distance d (in km), is retained once the
\* filter has run, and has a marker of the colour c once the loop has ended
Classified(k, d, c) ==
    LET r == turbines.rows[k]
    IN  /\ r.nearest_dist = d
        /\ Filtered => Count(close_turbines.rows, Key(r)) >= 1
        /\ MarkersDone =>
              /\ \E j \in 1..Len(m) : MarkerDist(j) = d
              /\ \A j \in 1..Len(m) : MarkerDist(j) = d => m[j].color = c

\* C20: in planar metres, with the one square district whose centroid is
\* (1,1), the turbine 5000 m due north of the centroid gets 5.0 km, is
\* retained and is moderate (orange), and the turbine 1000 m due north gets
\* 1.0 km, is retained and is near (red).
C20_PlanarScenario ==
    /\ HasCentroid => Centroids = <<Metres(1, 1)>>
    /\ HasDist =>
          \A k \in 1..Len(turbines.rows) :
              /\ turbines.rows[k].geometry = Metres(1, 5001)
                    => Classified(k, Float64(5, 1), "orange")
              /\ turbines.rows[k].geometry = Metres(1, 1001)
                    => Classified(k, Float64(1, 1), "red")

\* the run on both turbines of the scenario has ended with two markers
C20_Witness ==
    /\ pc = "done"
    /\ Centroids = <<Metres(1, 1)>>
    /\ Len(turbines.rows) = 2
    /\ turbines.rows[1].geometry = Metres(1, 5001)
    /\ turbines.rows[2].geometry = Metres(1, 1001)
    /\ Len(html_file.markers) = 2
    /\ stdout.count = 2

\* the statements after which close_turbines is back in EPSG:4326
Reprojected == pc \in {"map", "markers", "hist", "summary", "done"}

\* the rows of turbines (still planar) that are within the threshold
PlanarRetained ==
    SelectSeq(turbines.rows, LAMBDA r : Le(r.nearest_dist, Threshold))

\* C21: reprojecting close_turbines back to EPSG:4326 changes only the
\* geometry: the frame has the retained rows of the planar frame, in their
\* order, each with the same columns, the same identity and the nearest_dist
\* computed in the planar system, and its geometry reprojected; the popups
\* of the markers, the histogram's data and the printed summary carry those
\* planar distances.
C21_ReprojectionKeepsDistances ==
    Reprojected =>
        /\ close_turbines.crs = "EPSG:4326"
        /\ Len(close_turbines.rows) = Len(PlanarRetained)
        /\ \A k \in 1..Len(close_turbines.rows) :
              /\ DOMAIN close_turbines.rows[k] = DOMAIN PlanarRetained[k]
              /\ close_turbines.rows[k].id = PlanarRetained[k].id
              /\ close_turbines.rows[k].nearest_dist = PlanarRetained[k].nearest_dist
              /\ close_turbines.rows[k].geometry
                    = TransformGeom(PlanarRetained[k].geometry, "EPSG:3857", "EPSG:4326")
        /\ \A j \in 1..Len(m) :
              m[j].popup = Format2f(PlanarRetained[j].nearest_dist) \o <<" km to city">>
        /\ png_file.saved => png_file.data = Column(PlanarRetained, "nearest_dist")
        /\ stdout.printed =>
              /\ stdout.count = Len(PlanarRetained)
              /\ stdout.min = SeriesMin(Column(PlanarRetained, "nearest_dist"))
              /\ stdout.max = SeriesMax(Column(PlanarRetained, "nearest_dist"))
              /\ stdout.mean = SeriesMean(Column(PlanarRetained, "nearest_dist"))

\* a finished run with two retained turbines at different distances, not 0,
\* whose geometry in close_turbines is no longer the planar one, and an
\* excluded turbine
C21_Witness ==
    /\ pc = "done"
    /\ Len(PlanarRetained) = 2
    /\ Len(turbines.rows) > 2
    /\ Lt(Zero, PlanarRetained[1].nearest_dist)
    /\ Lt(PlanarRetained[1].nearest_dist, PlanarRetained[2].nearest_dist)
    /\ \A k \in 1..2 :
          /\ close_turbines.rows[k].geometry = MercatorInverse(PlanarRetained[k].geometry)
          /\ close_turbines.rows[k].geometry.x # PlanarRetained[k].geometry.x

\* the turbines (rows of the planar frame) whose distance satisfies P
TurbinesWhere(P(_)) == {k \in 1..Len(turbines.rows) : P(turbines.rows[k].nearest_dist)}

MarkersOf(c) == {j \in 1..Len(m) : m[j].color = c}

\* C22: the map gets one marker per retained turbine and none for a turbine
\* beyond 5 km: after the loop the markers are as many as the turbines
\* within 5 km and as the printed count, the j-th marker stands at the j-th
\* retained turbine, the red ones are as many as the turbines below 2 km
\* and the orange ones as many as the turbines from 2 to 5 km; the saved
\* file holds these markers.
C22_OneMarkerPerRetained ==
    MarkersDone =>
        /\ Len(m) = Cardinality(TurbinesWhere(LAMBDA d : Le(d, Threshold)))
        /\ Len(m) = Len(close_turbines.rows)
        /\ \A j \in 1..Len(m) :
              /\ Le(MarkerDist(j), Threshold)
              /\ m[j].location = <<close_turbines.rows[j].geometry.y,
                                   close_turbines.rows[j].geometry.x>>
        /\ Cardinality(MarkersOf("red"))
              = Cardinality(TurbinesWhere(LAMBDA d : Lt(d, NearBand)))
        /\ Cardinality(MarkersOf("orange"))
              = Cardinality(TurbinesWhere(LAMBDA d : Le(NearBand, d) /\ Le(d, Threshold)))
        /\ html_file.saved /\ html_file.markers = m
        /\ stdout.printed => stdout.count = Len(m)

\* a finished run with a red marker, an orange marker and a turbine beyond
\* 5 km that has none
C22_Witness ==
    /\ pc = "done"
    /\ MarkersOf("red") # {}
    /\ MarkersOf("orange") # {}
    /\ TurbinesWhere(LAMBDA d : Lt(Threshold, d)) # {}
    /\ stdout.count = Len(html_file.markers)

\* the next float64 above and below a positive float64
Float64Succ(x) ==
    LET r == AddBits(x.bits, <<1>>)
    IN  IF Len(r) > MantissaBits
        THEN [x EXCEPT !.bits = SubSeq(r, 1, MantissaBits), !.exp = @ + 1]
        ELSE [x EXCEPT !.bits = r]

Float64Pred(x) ==
    LET p == CHOOSE k \in 1..MantissaBits :
                 x.bits[k] = 1 /\ \A j \in (k + 1)..MantissaBits : x.bits[j] = 0
    IN  IF p = 1
        THEN [x EXCEPT !.bits = [k \in 1..MantissaBits |-> 1] \o <<>>, !.exp = @ - 1]
        ELSE [x EXCEPT !.bits = [k \in 1..MantissaBits |->
                                   IF k < p THEN x.bits[k] ELSE IF k = p THEN 0 ELSE 1] \o <<>>]

\* the k-th float64 above and below a float64 that is 0.0 or more (0.0
\* stands for itself)
RECURSIVE Float64Up(_, _)
Float64Up(x, k) ==
    IF k = 0 \/ x.bits = <<>> THEN x ELSE Float64Succ(Float64Up(x, k - 1))

RECURSIVE Float64Down(_, _)
Float64Down(x, k) ==
    IF k = 0 \/ x.bits = <<>> THEN x ELSE Float64Pred(Float64Down(x, k - 1))

\* the summary of a non-empty retained frame has been printed
SummaryOfSome == stdout.printed /\ stdout.count >= 1

\* what C23 says of count, min and max: 0 <= min <= max <= 5 and
\* 1 <= count <= the number of turbines in the file
CountMinMaxInRange ==
    /\ Le(Zero, stdout.min)
    /\ Le(stdout.min, stdout.max)
    /\ Le(stdout.max, Threshold)
    /\ stdout.count >= 1
    /\ stdout.count <= PointCount(turbines_file.features)

\* C23 as stated: whenever the retained frame is not empty the printed
\* statistics satisfy 0 <= min <= mean <= max <= 5, and the count is
\* between 1 and the number of turbines read.
C23_StatisticsOrdered ==
    SummaryOfSome =>
        /\ CountMinMaxInRange
        /\ Le(stdout.min, stdout.mean)
        /\ Le(stdout.mean, stdout.max)

\* C23 (amended): whenever the retained frame is not empty, 0 <= min <=
\* max <= 5 and the count is between 1 and the number of turbines read;
\* the printed mean, a sum and a quotient of float64 each rounded, is a
\* number not more than count units in the last place below min and not
\* more than count units in the last place above max.
C23_StatisticsOrderedUpToRounding ==
    SummaryOfSome =>
        /\ CountMinMaxInRange
        /\ ~stdout.mean.nan
        /\ Le(Float64Down(stdout.min, stdout.count), stdout.mean)
        /\ Le(stdout.mean, Float64Up(stdout.max, stdout.count))

\* the summary of three turbines, all at 0.7 km, whose mean is printed
\* below their minimum
C23_Witness ==
    /\ pc = "done"
    /\ stdout.count = 3
    /\ stdout.min = Float64(7, 10)
    /\ stdout.max = Float64(7, 10)
    /\ Lt(stdout.mean, stdout.min)

\* a sequence without its c-th element
RemoveAt(s, c) == [k \in 1..(Len(s) - 1) |-> IF k < c THEN s[k] ELSE s[k + 1]]

\* rows holds the distances to the centroids cs; for each row and each
\* centroid, d is the distance that the distance step gives the row for the
\* centroids without that one: the row's distance is not greater than d, a
\* row that d retains is retained, and a row that d puts in the near band is
\* in it (with no centroid left d is NaN, which is no distance and retains
\* nothing)
AddingNeverIncreases(rows, cs) ==
    \A k \in 1..Len(rows) : \A c \in 1..Len(cs) :
        LET d == NearestDist(rows[k].geometry, RemoveAt(cs, c))
            r == rows[k].nearest_dist
        IN  /\ d.nan = (Len(cs) = 1)
            /\ ~d.nan => Le(r, d)
            /\ Le(d, Threshold) => Le(r, Threshold)
            /\ (Le(d, Threshold) /\ Lt(d, NearBand)) => (Le(r, Threshold) /\ Lt(r, NearBand))

\* C24: adding a district to the districts never increases the nearest
\* distance of a turbine, so it removes no turbine from the retained ones
\* and moves none from near to moderate, and removing one never decreases a
\* distance: the distances of a run are related in this way to those the
\* distance step gives for the same turbines and one centroid fewer, for
\* each centroid in turn.
C24_AddingRegionNeverIncreases ==
    [][pc = "nearest_dist" => AddingNeverIncreases(turbines'.rows, Centroids)]_vars

\* a turbine in the near band that is not retained without one of the
\* districts, and a retained turbine that stays at its distance without it
C24_Witness ==
    /\ pc = "filter"
    /\ Len(Centroids) >= 2
    /\ \E c \in 1..Len(Centroids) :
          /\ \E k \in 1..Len(turbines.rows) :
                /\ Lt(turbines.rows[k].nearest_dist, NearBand)
                /\ Lt(Threshold, NearestDist(turbines.rows[k].geometry, RemoveAt(Centroids, c)))
          /\ \E k \in 1..Len(turbines.rows) :
                /\ Le(turbines.rows[k].nearest_dist, Threshold)
                /\ turbines.rows[k].nearest_dist
                      = NearestDist(turbines.rows[k].geometry, RemoveAt(Centroids, c))

====
